---------------------------- MODULE Spec2Model ----------------------------
(***************************************************************************)
(* Driver-side arbitration of the GameTank video peripheral                *)
(* (rom/src/sdk/scr.rs): the shadow register image SCR_MIR, the write-only *)
(* System Control Register bank at $2000, the Blitter Control Registers at *)
(* $4000, the VideoDma mode tokens, the DmaManager slot and its guards.    *)
(*                                                                         *)
(* One action per driver operation.  Every operation is a function from    *)
(* the driver state (a record of the variables below) to the driver state, *)
(* so that the same operation can be applied to a second run of the driver *)
(* (variable twin) whose hardware read-back differs.                       *)
(***************************************************************************)
EXTENDS Integers, Sequences, FiniteSets, TLC

VARIABLES
    mir,      \* SCR_MIR: the shadow image of the System Control Registers
    scr,      \* the bytes latched by the write-only registers at $2000
    rb,       \* the byte a read of a register at $2000 would return (the
              \* registers are write-only: read-back is unreliable, aliased)
    bcr,      \* the bytes latched by the Blitter Control Registers at $4000
    slot,     \* DmaManager.video_dma of every Console
    guards,   \* the live BlitterGuard / FramebuffersGuard / SpriteMemGuard values,
              \* oldest first
    result,   \* what the last operation returned, if a checkout: "Some", "None"
              \* ("NoCall" otherwise)
    writes,   \* the hardware writes of the last operation, in program order
    last,     \* the last operation: its name, its Console, the slot it found,
              \* its argument (for flip: the four bytes it found)
    twin,     \* a second run of the driver, fed the same operations while
              \* twin.on holds; its hardware read-back is its own
    vblank,   \* the static VBLANK of boot.rs
    blit,     \* the blitter: "Busy" from a write of 1 to start until the
              \* block transfer is done, "Idle" otherwise
    pc,       \* the caller: "ready", or "waiting" inside wait() of wait_blit
    wake,     \* the asynchronous event that ended the wait: "nmi", "blit"
              \* ("none": no event since wait() was entered)
    voice,    \* one Voice register block of the 7-channel audio firmware
              \* interface: its volptr and shift fields
    acall,    \* the last call into the audio interface: its name, argument,
              \* return value, whether it panicked, and the call before it
    seq,      \* the DemoSequencer of audio_demo.rs
    demo      \* the build of the demo (MAX_VOLUME of the firmware feature,
              \* overflow checks on or off) and the outcome of the last tick:
              \* its voice-register writes, whether it panicked, and whether
              \* a tick has found the sequence complete

vars ==
    <<mir, scr, rb, bcr, slot, guards, result, writes, last, twin,
      vblank, blit, pc, wake, voice, acall, seq, demo>>

audio == <<voice, acall, seq, demo>>

-----------------------------------------------------------------------------
(* Bounds *)

\* Console::init may be called this many times in all (SpecReinit)
MaxConsoles == 2

Consoles == 1..MaxConsoles

\* read-back values of a write-only register; power-on contents of $2007
ReadBackVals == {0, 255}

\* argument vectors of draw_square (first five) and draw_sprite (all six)
DrawArgs == { <<10, 20, 8, 8, 15, 0>>, <<255, 0, 1, 255, 128, 7>> }

-----------------------------------------------------------------------------
(* VideoFlags and BankFlags *)

DMA_ENABLE == 1
DMA_PAGE_OUT == 2
DMA_NMI == 4
DMA_COLORFILL == 8
DMA_GCARRY == 16
DMA_CPU_TO_VRAM == 32
DMA_IRQ == 64
DMA_OPAQUE == 128
FRAMEBUFFER_SELECT == 8

RECURSIVE BitAnd(_, _)
BitAnd(a, b) ==
    IF a = 0 \/ b = 0 THEN 0
    ELSE 2 * BitAnd(a \div 2, b \div 2) + (IF a % 2 = 1 /\ b % 2 = 1 THEN 1 ELSE 0)

RECURSIVE BitOr(_, _)
BitOr(a, b) ==
    IF a = 0 THEN b
    ELSE IF b = 0 THEN a
    ELSE 2 * BitOr(a \div 2, b \div 2) + (IF a % 2 = 1 \/ b % 2 = 1 THEN 1 ELSE 0)

RECURSIVE BitXor(_, _)
BitXor(a, b) ==
    IF a = 0 THEN b
    ELSE IF b = 0 THEN a
    ELSE 2 * BitXor(a \div 2, b \div 2) + (IF a % 2 # b % 2 THEN 1 ELSE 0)

\* bitflags: contains, insert, remove, toggle, set on a u8
contains(flags, other) == BitAnd(flags, other) = other
insert(flags, other) == BitOr(flags, other)
remove(flags, other) == BitAnd(flags, 255 - other)
toggle(flags, other) == BitXor(flags, other)
set(flags, other, value) == IF value THEN insert(flags, other) ELSE remove(flags, other)

-----------------------------------------------------------------------------
(* The driver state as one record *)

Cur ==
    [mir |-> mir, scr |-> scr, rb |-> rb, bcr |-> bcr, slot |-> slot,
     guards |-> guards, result |-> result, writes |-> writes]

\* the static SCR_MIR as the boot code loads it
SCR_MIR ==
    [audio_reset |-> 69, audio_nmi |-> 0, banking |-> 0, audio_reg |-> 105,
     video_reg |-> 0]

Unwritten == -1

\* the Bcr registers, none written yet
BcrReset ==
    [fb_x |-> Unwritten, fb_y |-> Unwritten, vram_x |-> Unwritten,
     vram_y |-> Unwritten, width |-> Unwritten, height |-> Unwritten,
     start |-> Unwritten, color |-> Unwritten]

\* a store to a field of the register bank at $2000
ScrWrite(d, reg, val) ==
    [d EXCEPT !.scr = [@ EXCEPT ![reg] = val],
              !.writes = Append(@, <<reg, val>>)]

\* sc.scr.video_reg = sc.mir.video_reg
PushVideo(d) == ScrWrite(d, "video_reg", d.mir.video_reg)

\* sc.scr.banking = sc.mir.banking
PushBanking(d) == ScrWrite(d, "banking", d.mir.banking)

\* a WO<u8>::write to a field of the register bank at $4000
BcrWrite(d, reg, val) ==
    [d EXCEPT !.bcr = [@ EXCEPT ![reg] = val],
              !.writes = Append(@, <<reg, val>>)]


-----------------------------------------------------------------------------
(* The VideoDma tokens and their transitions.  A token carries no data: an *)
(* operation on a token is its effect on SystemControl.                    *)

Tokens == {"DmaFb", "DmaBlit", "DmaSprites"}

\* faulty variant: a wrong constant also sets DMA_PAGE_OUT
Framebuffers_blitter_wide(d) ==
    PushVideo([d EXCEPT !.mir.video_reg =
                            insert(@, BitOr(DMA_ENABLE, DMA_PAGE_OUT))])

Framebuffers_blitter(d) ==
    PushVideo([d EXCEPT !.mir.video_reg = insert(@, DMA_ENABLE)])

\* faulty variant: the direction bit is left set
Framebuffers_sprite_mem_keeps_dir(d) == PushVideo(d)

Framebuffers_sprite_mem(d) ==
    PushVideo([d EXCEPT !.mir.video_reg = remove(@, DMA_CPU_TO_VRAM)])

\* faulty variant: DMA_ENABLE is not inserted
SpriteMem_blitter_no_enable(d) == PushVideo(d)

SpriteMem_blitter(d) ==
    PushVideo([d EXCEPT !.mir.video_reg = insert(@, DMA_ENABLE)])

SpriteMem_framebuffers(d) ==
    PushVideo([d EXCEPT !.mir.video_reg = insert(@, DMA_CPU_TO_VRAM)])

\* faulty variant: the direction bit is left as it was
Blitter_framebuffers_no_dir(d) ==
    PushVideo([d EXCEPT !.mir.video_reg = remove(@, DMA_ENABLE)])

Blitter_framebuffers(d) ==
    PushVideo([d EXCEPT !.mir.video_reg =
                            insert(remove(@, DMA_ENABLE), DMA_CPU_TO_VRAM)])

\* faulty variant: the byte is pushed after each of the two bit updates
Blitter_sprite_mem_two_writes(d) ==
    LET a == PushVideo([d EXCEPT !.mir.video_reg = remove(@, DMA_CPU_TO_VRAM)])
    IN  PushVideo([a EXCEPT !.mir.video_reg = remove(@, DMA_ENABLE)])

Blitter_sprite_mem(d) ==
    PushVideo([d EXCEPT !.mir.video_reg =
                            remove(@, BitOr(DMA_ENABLE, DMA_CPU_TO_VRAM))])

VideoDma_framebuffers(tok, d) ==
    CASE tok = "DmaFb" -> d
      [] tok = "DmaBlit" -> Blitter_framebuffers(d)
      [] tok = "DmaSprites" -> SpriteMem_framebuffers(d)

\* faulty variant: the token is converted without its transition
VideoDma_blitter_no_transition(tok, d) == d

VideoDma_blitter(tok, d) ==
    CASE tok = "DmaFb" -> Framebuffers_blitter(d)
      [] tok = "DmaBlit" -> d
      [] tok = "DmaSprites" -> SpriteMem_blitter(d)

VideoDma_sprite_mem(tok, d) ==
    CASE tok = "DmaFb" -> Framebuffers_sprite_mem(d)
      [] tok = "DmaBlit" -> Blitter_sprite_mem(d)
      [] tok = "DmaSprites" -> d

-----------------------------------------------------------------------------
(* SystemControl *)

\* faulty variant: DMA_IRQ is not inserted
\* faulty variant: FRAMEBUFFER_SELECT is set, not cleared
SystemControl_init_same_page(d) ==
    LET v == insert(insert(insert(insert(insert(d.mir.video_reg,
                 DMA_NMI), DMA_IRQ), DMA_GCARRY), DMA_OPAQUE), DMA_PAGE_OUT)
        m == [d EXCEPT !.mir.video_reg = v,
                       !.mir.banking = insert(@, FRAMEBUFFER_SELECT)]
        w1 == ScrWrite(m, "audio_reset", m.mir.audio_reset)
        w2 == ScrWrite(w1, "audio_nmi", w1.mir.audio_nmi)
        w3 == ScrWrite(w2, "banking", w2.mir.banking)
        w4 == ScrWrite(w3, "audio_reg", w3.mir.audio_reg)
    IN  ScrWrite(w4, "video_reg", w4.mir.video_reg)

SystemControl_init_no_irq(d) ==
    LET v == insert(insert(insert(insert(d.mir.video_reg,
                 DMA_NMI), DMA_GCARRY), DMA_OPAQUE), DMA_PAGE_OUT)
        m == [d EXCEPT !.mir.video_reg = v,
                       !.mir.banking = remove(@, FRAMEBUFFER_SELECT)]
        w1 == ScrWrite(m, "audio_reset", m.mir.audio_reset)
        w2 == ScrWrite(w1, "audio_nmi", w1.mir.audio_nmi)
        w3 == ScrWrite(w2, "banking", w2.mir.banking)
        w4 == ScrWrite(w3, "audio_reg", w3.mir.audio_reg)
    IN  ScrWrite(w4, "video_reg", w4.mir.video_reg)

SystemControl_init(d) ==
    LET v == insert(insert(insert(insert(insert(d.mir.video_reg,
                 DMA_NMI), DMA_IRQ), DMA_GCARRY), DMA_OPAQUE), DMA_PAGE_OUT)
        m == [d EXCEPT !.mir.video_reg = v,
                       !.mir.banking = remove(@, FRAMEBUFFER_SELECT)]
        w1 == ScrWrite(m, "audio_reset", m.mir.audio_reset)
        w2 == ScrWrite(w1, "audio_nmi", w1.mir.audio_nmi)
        w3 == ScrWrite(w2, "banking", w2.mir.banking)
        w4 == ScrWrite(w3, "audio_reg", w3.mir.audio_reg)
    IN  ScrWrite(w4, "video_reg", w4.mir.video_reg)

\* faulty variant: the byte is rebuilt from the fill mode alone
SystemControl_set_fill_mode_overwrites(d, mode) ==
    PushVideo([d EXCEPT !.mir.video_reg =
                            IF mode = "Color" THEN DMA_COLORFILL ELSE 0])

\* faulty variant: the comparison is the wrong way round
SystemControl_set_fill_mode_inverted(d, mode) ==
    PushVideo([d EXCEPT !.mir.video_reg = set(@, DMA_COLORFILL, mode # "Color")])

\* faulty variant: the shadow is updated and the byte is not pushed to hardware
SystemControl_set_fill_mode_no_push(d, mode) ==
    [d EXCEPT !.mir.video_reg = set(@, DMA_COLORFILL, mode = "Color")]

\* mode is "Color" or "Sprite" (BlitterFillMode)
SystemControl_set_fill_mode(d, mode) ==
    PushVideo([d EXCEPT !.mir.video_reg = set(@, DMA_COLORFILL, mode = "Color")])

-----------------------------------------------------------------------------
(* DmaManager, Console and the guards *)

\* faulty variant: the slot is read and not emptied
take_keeps(d, c) == d

\* self.video_dma.take()
take(d, c) == [d EXCEPT !.slot[c] = "None"]

Guard(c, mode) == [console |-> c, mode |-> mode]

\* faulty variant: the transition runs before the slot is looked at
DmaManager_blitter_eager(d, c) ==
    IF d.slot[c] = "None" THEN [SpriteMem_blitter(d) EXCEPT !.result = "None"]
    ELSE [VideoDma_blitter(d.slot[c], take(d, c)) EXCEPT
              !.guards = Append(@, Guard(c, "DmaBlit")), !.result = "Some"]

DmaManager_blitter(d, c) ==
    IF d.slot[c] = "None" THEN [d EXCEPT !.result = "None"]
    ELSE [VideoDma_blitter(d.slot[c], take(d, c)) EXCEPT
              !.guards = Append(@, Guard(c, "DmaBlit")), !.result = "Some"]

DmaManager_framebuffers(d, c) ==
    IF d.slot[c] = "None" THEN [d EXCEPT !.result = "None"]
    ELSE [VideoDma_framebuffers(d.slot[c], take(d, c)) EXCEPT
              !.guards = Append(@, Guard(c, "DmaFb")), !.result = "Some"]

DmaManager_sprite_mem(d, c) ==
    IF d.slot[c] = "None" THEN [d EXCEPT !.result = "None"]
    ELSE [VideoDma_sprite_mem(d.slot[c], take(d, c)) EXCEPT
              !.guards = Append(@, Guard(c, "DmaSprites")), !.result = "Some"]

\* Console::init: SystemControl::init, then DmaManager::new(DmaSprites)
Console_init(d, c) ==
    [SystemControl_init(d) EXCEPT !.slot[c] = "DmaSprites"]

RemoveAt(s, i) == [j \in 1..(Len(s) - 1) |-> IF j < i THEN s[j] ELSE s[j + 1]]

\* faulty variant: the release restores the post-reset default mode
Drop_reverts(d, i) ==
    IF i > Len(d.guards) THEN d
    ELSE [d EXCEPT !.slot[d.guards[i].console] = "DmaSprites",
                   !.guards = RemoveAt(@, i)]

\* faulty variant: the release puts the hardware back into SpriteMem mode
Drop_resets_mode(d, i) ==
    IF i > Len(d.guards) THEN d
    ELSE PushVideo([d EXCEPT
             !.slot[d.guards[i].console] = "DmaSprites",
             !.guards = RemoveAt(@, i),
             !.mir.video_reg =
                 remove(@, BitOr(DMA_ENABLE, DMA_CPU_TO_VRAM))])

\* faulty variant: releasing a Blitter guard stops the blitter
Drop_clears_start(d, i) ==
    IF i > Len(d.guards) THEN d
    ELSE LET n == [d EXCEPT !.slot[d.guards[i].console] = d.guards[i].mode,
                            !.guards = RemoveAt(@, i)]
         IN  IF d.guards[i].mode = "DmaBlit" THEN BcrWrite(n, "start", 0)
             ELSE n

\* faulty variant: the guard goes away and its token is not written back
Drop_loses(d, i) ==
    IF i > Len(d.guards) THEN d
    ELSE [d EXCEPT !.guards = RemoveAt(@, i)]

\* Drop for BlitterGuard / FramebuffersGuard / SpriteMemGuard: the guard at
\* position i of guards goes out of scope
Drop(d, i) ==
    IF i > Len(d.guards) THEN d
    ELSE [d EXCEPT !.slot[d.guards[i].console] = d.guards[i].mode,
                   !.guards = RemoveAt(@, i)]

\* faulty variant: DMA_PAGE_OUT is not toggled
FramebuffersGuard_flip_no_page_out(d) ==
    LET m == [d EXCEPT !.mir.banking = toggle(@, FRAMEBUFFER_SELECT)]
    IN  PushVideo(PushBanking(m))

\* faulty variant: the two bits are set, not toggled
FramebuffersGuard_flip_sets(d) ==
    LET m == [d EXCEPT !.mir.banking = insert(@, FRAMEBUFFER_SELECT),
                       !.mir.video_reg = insert(@, DMA_PAGE_OUT)]
    IN  PushVideo(PushBanking(m))

\* faulty variant: the video-flags byte is read back from hardware, not from the shadow
FramebuffersGuard_flip_readback(d) ==
    LET m == [d EXCEPT !.mir.banking = toggle(@, FRAMEBUFFER_SELECT),
                       !.mir.video_reg = toggle(d.rb, DMA_PAGE_OUT)]
    IN  PushVideo(PushBanking(m))

\* faulty variant: each shadow byte is pushed as soon as it is toggled
FramebuffersGuard_flip_steps_interleaved(d) ==
    LET s1 == [d EXCEPT !.mir.banking = toggle(@, FRAMEBUFFER_SELECT)]
        s2 == PushBanking(s1)
        s3 == [s2 EXCEPT !.mir.video_reg = toggle(@, DMA_PAGE_OUT)]
        s4 == PushVideo(s3)
    IN  <<s1, s2, s3, s4>>

\* the driver state after each of the four statements of flip
FramebuffersGuard_flip_steps(d) ==
    LET s1 == [d EXCEPT !.mir.banking = toggle(@, FRAMEBUFFER_SELECT)]
        s2 == [s1 EXCEPT !.mir.video_reg = toggle(@, DMA_PAGE_OUT)]
        s3 == PushBanking(s2)
        s4 == PushVideo(s3)
    IN  <<s1, s2, s3, s4>>

FramebuffersGuard_flip(d) == FramebuffersGuard_flip_steps(d)[4]

\* faulty variant: a draw is dropped while the start trigger is still set
BlitterGuard_draw_square_if_stopped(d, a) ==
    IF d.bcr.start = 1 THEN d
    ELSE LET f == SystemControl_set_fill_mode(d, "Color")
             w1 == BcrWrite(f, "fb_x", a[1])
             w2 == BcrWrite(w1, "fb_y", a[2])
             w3 == BcrWrite(w2, "width", a[3])
             w4 == BcrWrite(w3, "height", a[4])
             w5 == BcrWrite(w4, "color", a[5])
         IN  BcrWrite(w5, "start", 1)

\* faulty variant: x and y are written to each other's register
BlitterGuard_draw_square_swapped(d, a) ==
    LET f == SystemControl_set_fill_mode(d, "Color")
        w1 == BcrWrite(f, "fb_x", a[2])
        w2 == BcrWrite(w1, "fb_y", a[1])
        w3 == BcrWrite(w2, "width", a[3])
        w4 == BcrWrite(w3, "height", a[4])
        w5 == BcrWrite(w4, "color", a[5])
    IN  BcrWrite(w5, "start", 1)

\* a is <<x, y, width, height, color, _>>
BlitterGuard_draw_square(d, a) ==
    LET f == SystemControl_set_fill_mode(d, "Color")
        w1 == BcrWrite(f, "fb_x", a[1])
        w2 == BcrWrite(w1, "fb_y", a[2])
        w3 == BcrWrite(w2, "width", a[3])
        w4 == BcrWrite(w3, "height", a[4])
        w5 == BcrWrite(w4, "color", a[5])
    IN  BcrWrite(w5, "start", 1)

\* faulty variant: the fill mode is set after the registers are loaded
BlitterGuard_draw_sprite_late_fill(d, a) ==
    LET w1 == BcrWrite(d, "vram_x", a[1])
        w2 == BcrWrite(w1, "vram_y", a[2])
        w3 == BcrWrite(w2, "fb_x", a[3])
        w4 == BcrWrite(w3, "fb_y", a[4])
        w5 == BcrWrite(w4, "width", a[5])
        w6 == BcrWrite(w5, "height", a[6])
        f == SystemControl_set_fill_mode(w6, "Sprite")
    IN  BcrWrite(f, "start", 1)

\* faulty variant: the fill mode is left at Color
BlitterGuard_draw_sprite_color_fill(d, a) ==
    LET f == SystemControl_set_fill_mode(d, "Color")
        w1 == BcrWrite(f, "vram_x", a[1])
        w2 == BcrWrite(w1, "vram_y", a[2])
        w3 == BcrWrite(w2, "fb_x", a[3])
        w4 == BcrWrite(w3, "fb_y", a[4])
        w5 == BcrWrite(w4, "width", a[5])
        w6 == BcrWrite(w5, "height", a[6])
    IN  BcrWrite(w6, "start", 1)

\* a is <<sx, sy, fb_x, fb_y, width, height>>
BlitterGuard_draw_sprite(d, a) ==
    LET f == SystemControl_set_fill_mode(d, "Sprite")
        w1 == BcrWrite(f, "vram_x", a[1])
        w2 == BcrWrite(w1, "vram_y", a[2])
        w3 == BcrWrite(w2, "fb_x", a[3])
        w4 == BcrWrite(w3, "fb_y", a[4])
        w5 == BcrWrite(w4, "width", a[5])
        w6 == BcrWrite(w5, "height", a[6])
    IN  BcrWrite(w6, "start", 1)

\* faulty variant: the start trigger is not cleared
BlitterGuard_wait_blit_no_clear(d) == d

\* wait_blit after wait() has returned: bcr.start.write(0)
BlitterGuard_wait_blit(d) == BcrWrite(d, "start", 0)

\* FramebuffersGuard::bytes / SpriteMemGuard::bytes: a reference to the
\* window at $4000; nothing is stored
Guard_bytes(d) == d

-----------------------------------------------------------------------------
(* audio/wavetable_7ch_linear.rs and audio/wavetable_8v.rs: the voice      *)
(* register blocks                                                         *)

MaxIndex == 9
Indices == 0..MaxIndex
U8 == 0..255

VOICE_BASE_7ch == 12353
VOICE_SIZE_7ch == 9
VOICE_COUNT_7ch == 7

VOICE_BASE_8v == 12353
VOICE_SIZE_8v == 7
VOICE_COUNT_8v == 8

\* (volume_table_ptr, shift_count) of the levels 0 to 16
VOLUME_MAP ==
    << <<1280, 4>>,
       <<1280, 3>>, <<1024, 3>>, <<768, 3>>, <<512, 3>>,
       <<1280, 2>>, <<1024, 2>>, <<768, 2>>, <<512, 2>>,
       <<1280, 1>>, <<1024, 1>>, <<768, 1>>, <<512, 1>>,
       <<1280, 0>>, <<1024, 0>>, <<768, 0>>, <<512, 0>> >>

\* u8::min
min(a, b) == IF a < b THEN a ELSE b

\* contents a Voice may hold before the first set_volume
VoiceRam == [volptr : {0, 512}, shift : {0, 9}]

Voice_set_volume(v, level) ==
    LET l == min(level, 16)
        e == VOLUME_MAP[l + 1]
    IN  [v EXCEPT !.volptr = e[1], !.shift = e[2]]

Voice_mute(v) == [v EXCEPT !.shift = 4]

\* faulty variant: the reverse lookup compares the table pointer only
Voice_get_volume_ptr_only(v) ==
    LET hits == {i \in 1..Len(VOLUME_MAP) : VOLUME_MAP[i][1] = v.volptr}
    IN  IF hits = {} THEN 0
        ELSE (CHOOSE i \in hits : \A j \in hits : i <= j) - 1

\* VOLUME_MAP.iter().position(..).unwrap_or(0) as u8
Voice_get_volume(v) ==
    LET hits == {i \in 1..Len(VOLUME_MAP) :
                     VOLUME_MAP[i][1] = v.volptr /\ VOLUME_MAP[i][2] = v.shift}
    IN  IF hits = {} THEN 0
        ELSE (CHOOSE i \in hits : \A j \in hits : i <= j) - 1

\* voice(index) of the 7-channel interface: the address of the block, or a panic
voice_7ch(index) ==
    IF index < VOICE_COUNT_7ch
    THEN [panics |-> FALSE, addr |-> VOICE_BASE_7ch + index * VOICE_SIZE_7ch]
    ELSE [panics |-> TRUE, addr |-> 0]

\* voice(index) of the 8-voice interface
voice_8v(index) ==
    IF index < VOICE_COUNT_8v
    THEN [panics |-> FALSE, addr |-> VOICE_BASE_8v + index * VOICE_SIZE_8v]
    ELSE [panics |-> TRUE, addr |-> 0]

NoAudioCall ==
    [name |-> "none", arg |-> 0, ret |-> 0, panics |-> FALSE, after |-> "none"]

-----------------------------------------------------------------------------
(* audio_demo.rs: DemoSequencer *)

MAX_VOLUME_7ch == 16
MAX_VOLUME_8ch == 63

DemoSequencer_new(mv) ==
    [frame |-> 0, step |-> 0, bg_level |-> mv, melody_level |-> mv,
     bg_fade_counter |-> 0, melody_fade_counter |-> 0]

\* the demo is not running
DemoOff ==
    /\ seq = DemoSequencer_new(MAX_VOLUME_7ch)
    /\ demo = [MAX_VOLUME |-> MAX_VOLUME_7ch, overflow_checks |-> FALSE,
               writes |-> <<>>, panicked |-> FALSE, complete |-> FALSE]

\* the match of tick: the sequencer and the voice-register writes made, as
\* <<voice index, "note" or "volume", value>>
tick_match(q, mv) ==
    LET BG_FADE_INTERVAL == IF mv > 32 THEN 3 ELSE 14
        MELODY_FADE_INTERVAL == IF mv > 32 THEN 4 ELSE 15
        melody_voice == 5
        chord == <<"C4", "E4", "G4", "B4", "D5">>
    IN
    IF q.step \in 1..5 THEN
        [q |-> q,
         w |-> IF q.frame = 0
               THEN << <<q.step - 1, "note", chord[q.step]>>,
                       <<q.step - 1, "volume", q.bg_level>> >>
               ELSE <<>>]
    ELSE IF q.step \in 6..9 THEN
        LET w1 == IF q.step = 6 /\ q.frame = 0
                  THEN << <<melody_voice, "volume", q.melody_level>> >>
                  ELSE <<>>
            w2 == IF q.step = 8 /\ q.frame = 0
                      THEN << <<melody_voice, "note", "E5">> >>
                  ELSE IF q.step = 8 /\ q.frame = 20
                      THEN << <<melody_voice, "note", "B4">> >>
                  ELSE IF q.step = 8 /\ q.frame = 40
                      THEN << <<melody_voice, "note", "G4">> >>
                  ELSE <<>>
            c == (q.bg_fade_counter + 1) % 256
            fade == c >= BG_FADE_INTERVAL /\ q.bg_level > 0
            l == IF fade THEN q.bg_level - 1 ELSE q.bg_level
            w3 == IF fade THEN [i \in 1..5 |-> <<i - 1, "volume", l>>]
                  ELSE <<>>
        IN  [q |-> [q EXCEPT !.bg_fade_counter =
                                 IF c >= BG_FADE_INTERVAL THEN 0 ELSE c,
                             !.bg_level = l],
             w |-> w1 \o w2 \o w3]
    ELSE IF q.step \in 10..26 THEN
        LET c == (q.melody_fade_counter + 1) % 256
            fade == c >= MELODY_FADE_INTERVAL /\ q.melody_level > 0
            l == IF fade THEN q.melody_level - 1 ELSE q.melody_level
        IN  [q |-> [q EXCEPT !.melody_fade_counter =
                                 IF c >= MELODY_FADE_INTERVAL THEN 0 ELSE c,
                             !.melody_level = l],
             w |-> IF fade THEN << <<melody_voice, "volume", l>> >> ELSE <<>>]
    ELSE [q |-> q, w |-> <<>>]

\* DemoSequencer::tick in a build with voice levels up to mv and overflow
\* checks oc: self.step += 1 on a u8 panics when checked and wraps otherwise
DemoSequencer_tick(q, mv, oc) ==
    LET m == tick_match(q, mv)
        f == m.q.frame + 1
    IN  IF f >= 60
        THEN IF m.q.step + 1 > 255 /\ oc
             THEN [q |-> [m.q EXCEPT !.frame = 0], w |-> m.w,
                   panicked |-> TRUE]
             ELSE [q |-> [m.q EXCEPT !.frame = 0, !.step = (@ + 1) % 256],
                   w |-> m.w, panicked |-> FALSE]
        ELSE [q |-> [m.q EXCEPT !.frame = f], w |-> m.w, panicked |-> FALSE]

-----------------------------------------------------------------------------
(* boot.rs: the interrupt handler and the wait primitive *)

\* null_interrupt(): the empty handler, also the IRQ/BRK vector
null_interrupt(d) == d

\* faulty variant: the handler also flips the displayed page
vblank_nmi_flips(d) ==
    [VBLANK |-> TRUE,
     drv |-> PushVideo([d EXCEPT !.mir.video_reg = toggle(@, DMA_PAGE_OUT)])]

\* vblank_nmi: VBLANK = true; null_interrupt()
vblank_nmi(d) == [VBLANK |-> TRUE, drv |-> null_interrupt(d)]

\* wait(): suspends the caller until the next asynchronous event; w is the
\* event seen since wait() was entered
wait_returns(w) == w # "none"

-----------------------------------------------------------------------------
(* Initial state: the boot code has loaded .data.zp (SCR_MIR) and written  *)
(* 0 to the banking register; Console::init has not run yet.               *)

NoOp == [name |-> "boot", console |-> 0, from |-> "Absent", arg |-> "-"]

\* the register bank at $2000 at power-on: p in every register but banking
PowerOn(p) ==
    [audio_reset |-> p, audio_nmi |-> p, banking |-> 0, audio_reg |-> p,
     video_reg |-> p]

Boot ==
    /\ mir = SCR_MIR
    /\ \E p \in ReadBackVals : scr = PowerOn(p)
    /\ rb \in ReadBackVals
    /\ bcr = BcrReset
    /\ slot = [c \in Consoles |-> "Absent"]
    /\ guards = <<>>
    /\ result = "NoCall"
    /\ writes = <<>>
    /\ last = NoOp
    /\ vblank = FALSE
    /\ blit = "Idle"
    /\ pc = "ready"
    /\ wake = "none"
    /\ acall = NoAudioCall

\* the driver runs; the audio interface is not called
Init ==
    /\ Boot /\ twin = [on |-> FALSE] /\ voice = [volptr |-> 0, shift |-> 0]
    /\ DemoOff

\* the audio interface runs; a Voice is ACP RAM with unknown contents
InitAudio ==
    /\ Boot /\ scr = PowerOn(0) /\ rb = 0
    /\ twin = [on |-> FALSE]
    /\ voice \in VoiceRam
    /\ DemoOff

\* the demo runs: init_demo has returned DemoSequencer::new(), in a build
\* with either firmware feature and with overflow checks on or off
InitDemo ==
    /\ Boot /\ scr = PowerOn(0) /\ rb = 0
    /\ twin = [on |-> FALSE]
    /\ voice = [volptr |-> 0, shift |-> 0]
    /\ \E mv \in {MAX_VOLUME_7ch, MAX_VOLUME_8ch}, oc \in BOOLEAN :
           /\ seq = DemoSequencer_new(mv)
           /\ demo = [MAX_VOLUME |-> mv, overflow_checks |-> oc,
                      writes |-> <<>>, panicked |-> FALSE, complete |-> FALSE]

\* two runs that differ in the contents and the read-back of the hardware
InitTwoRuns ==
    /\ Boot
    /\ voice = [volptr |-> 0, shift |-> 0]
    /\ DemoOff
    /\ \E p \in ReadBackVals, r \in ReadBackVals :
           twin = [on |-> TRUE, mir |-> SCR_MIR, scr |-> PowerOn(p), rb |-> r,
                   bcr |-> BcrReset, slot |-> [c \in Consoles |-> "Absent"],
                   guards |-> <<>>, result |-> "NoCall", writes |-> <<>>]

-----------------------------------------------------------------------------
(* Actions *)

\* an operation starts with no hardware write made and nothing returned
Begin(d) == [d EXCEPT !.writes = <<>>, !.result = "NoCall"]

\* the values written to register reg in the write trace w
Written(w, reg) == {w[i][2] : i \in {j \in 1..Len(w) : w[j][1] = reg}}

\* the driver runs operation Op; the second run, if there is one, runs it too;
\* a write of 1 to the start register starts the blitter
Run(Op(_)) ==
    LET n == Op(Begin(Cur)) IN
    /\ blit' = IF 1 \in Written(n.writes, "start") THEN "Busy" ELSE blit
    /\ UNCHANGED vblank
    /\ UNCHANGED audio
    /\ mir' = n.mir
    /\ scr' = n.scr
    /\ rb' = n.rb
    /\ bcr' = n.bcr
    /\ slot' = n.slot
    /\ guards' = n.guards
    /\ result' = n.result
    /\ writes' = n.writes
    /\ twin' = IF twin.on THEN Op(Begin(twin)) ELSE twin

Initialised == \E c \in Consoles : slot[c] # "Absent"

HasGuard(mode) == \E i \in 1..Len(guards) : guards[i].mode = mode

\* the caller is not suspended in wait() and is not suspended by this step
Ready == pc = "ready" /\ pc' = pc /\ wake' = wake

ConsoleInit(c) ==
    /\ slot[c] = "Absent"
    /\ Ready
    /\ Run(LAMBDA d : Console_init(d, c))
    /\ last' = [name |-> "init", console |-> c, from |-> "Absent", arg |-> "-"]

\* main calls Console::init once, before anything else
Startup == ~Initialised /\ ConsoleInit(1)

\* Console::init called again: a second Console on the same SCR_MIR
ReInit == Initialised /\ \E c \in Consoles : ConsoleInit(c)

CheckoutBlitter(c) ==
    /\ slot[c] # "Absent"
    /\ Ready
    /\ Run(LAMBDA d : DmaManager_blitter(d, c))
    /\ last' = [name |-> "blitter", console |-> c, from |-> slot[c], arg |-> "-"]

CheckoutFramebuffers(c) ==
    /\ slot[c] # "Absent"
    /\ Ready
    /\ Run(LAMBDA d : DmaManager_framebuffers(d, c))
    /\ last' = [name |-> "framebuffers", console |-> c, from |-> slot[c],
                arg |-> "-"]

CheckoutSpriteMem(c) ==
    /\ slot[c] # "Absent"
    /\ Ready
    /\ Run(LAMBDA d : DmaManager_sprite_mem(d, c))
    /\ last' = [name |-> "sprite_mem", console |-> c, from |-> slot[c],
                arg |-> "-"]

\* the guard at position i goes out of scope
Release(i) ==
    /\ i \in 1..Len(guards)
    /\ Ready
    /\ Run(LAMBDA d : Drop(d, i))
    /\ last' = [name |-> "drop", console |-> guards[i].console,
                from |-> slot[guards[i].console], arg |-> guards[i].mode]

Flip ==
    /\ HasGuard("DmaFb")
    /\ Ready
    /\ Run(LAMBDA d : FramebuffersGuard_flip(d))
    /\ last' = [name |-> "flip", console |-> 0, from |-> "-",
                arg |-> <<mir.banking, mir.video_reg, scr.banking,
                          scr.video_reg>>]

SetFillMode(mode) ==
    /\ Initialised
    /\ Ready
    /\ Run(LAMBDA d : SystemControl_set_fill_mode(d, mode))
    /\ last' = [name |-> "set_fill_mode", console |-> 0, from |-> "-",
                arg |-> mode]

\* caller code reaches the slot through the public field of DmaManager:
\* console.dma.video_dma.take(), possible whenever no guard borrows the slot
FieldTake(c) ==
    /\ slot[c] \in Tokens
    /\ Ready
    /\ Run(LAMBDA d : take(d, c))
    /\ last' = [name |-> "field_take", console |-> c, from |-> slot[c],
                arg |-> "-"]

DrawSquare(a) ==
    /\ HasGuard("DmaBlit")
    /\ Ready
    /\ Run(LAMBDA d : BlitterGuard_draw_square(d, a))
    /\ last' = [name |-> "draw_square", console |-> 0, from |-> blit, arg |-> a]

DrawSprite(a) ==
    /\ HasGuard("DmaBlit")
    /\ Ready
    /\ Run(LAMBDA d : BlitterGuard_draw_sprite(d, a))
    /\ last' = [name |-> "draw_sprite", console |-> 0, from |-> blit, arg |-> a]

\* a guard hands out the video-memory window
Bytes(i) ==
    /\ i \in 1..Len(guards)
    /\ guards[i].mode \in {"DmaFb", "DmaSprites"}
    /\ Ready
    /\ Run(LAMBDA d : Guard_bytes(d))
    /\ last' = [name |-> "bytes", console |-> guards[i].console, from |-> "-",
                arg |-> guards[i].mode]

\* wait_blit is called and suspends in wait()
WaitBlitCall ==
    /\ HasGuard("DmaBlit")
    /\ pc = "ready"
    /\ pc' = "waiting"
    /\ wake' = "none"
    /\ UNCHANGED <<mir, scr, rb, bcr, slot, guards, result, writes, last, twin>>
    /\ UNCHANGED <<vblank, blit>>
    /\ UNCHANGED audio

\* wait() returns and wait_blit clears the start trigger
WaitBlitReturn ==
    /\ pc = "waiting"
    /\ wait_returns(wake)
    /\ Run(LAMBDA d : BlitterGuard_wait_blit(d))
    /\ pc' = "ready"
    /\ wake' = "none"
    /\ last' = [name |-> "wait_blit", console |-> 0, from |-> blit,
                arg |-> wake]

\* the vertical-blank interrupt: vblank_nmi runs, between any two steps
Nmi ==
    LET n == vblank_nmi(Cur) IN
    /\ mir' = n.drv.mir
    /\ scr' = n.drv.scr
    /\ rb' = n.drv.rb
    /\ bcr' = n.drv.bcr
    /\ slot' = n.drv.slot
    /\ guards' = n.drv.guards
    /\ result' = n.drv.result
    /\ writes' = n.drv.writes
    /\ vblank' = n.VBLANK
    /\ wake' = IF pc = "waiting" /\ wake = "none" THEN "nmi" ELSE wake
    /\ UNCHANGED <<last, twin, blit, pc>>
    /\ UNCHANGED audio

\* the blitter finishes the block transfer and signals it
BlitDone ==
    /\ blit = "Busy"
    /\ blit' = "Idle"
    /\ wake' = IF pc = "waiting" /\ wake = "none" THEN "blit" ELSE wake
    /\ UNCHANGED <<mir, scr, rb, bcr, slot, guards, result, writes, last, twin>>
    /\ UNCHANGED <<vblank, pc>>
    /\ UNCHANGED audio

\* the value a read of the write-only registers would return changes
Alias ==
    /\ \E r \in ReadBackVals : r # rb /\ rb' = r
    /\ UNCHANGED <<mir, scr, bcr, slot, guards, result, writes, last, twin>>
    /\ UNCHANGED <<vblank, blit, pc, wake>>
    /\ UNCHANGED audio

AliasTwin ==
    /\ twin.on
    /\ \E r \in ReadBackVals : r # twin.rb /\ twin' = [twin EXCEPT !.rb = r]
    /\ UNCHANGED <<mir, scr, rb, bcr, slot, guards, result, writes, last>>
    /\ UNCHANGED <<vblank, blit, pc, wake>>
    /\ UNCHANGED audio

\* the operations on the arbiter and on SystemControl
Arbitration ==
    \/ Startup
    \/ \E c \in Consoles : CheckoutBlitter(c)
    \/ \E c \in Consoles : CheckoutFramebuffers(c)
    \/ \E c \in Consoles : CheckoutSpriteMem(c)
    \/ \E i \in 1..Len(guards) : Release(i)
    \/ Flip
    \/ \E mode \in {"Color", "Sprite"} : SetFillMode(mode)

Next ==
    \/ Arbitration
    \/ \E a \in DrawArgs : DrawSquare(a)
    \/ \E a \in DrawArgs : DrawSprite(a)
    \/ \E i \in 1..Len(guards) : Bytes(i)
    \/ WaitBlitCall
    \/ WaitBlitReturn
    \/ Nmi
    \/ BlitDone

\* Console::init runs once, at startup
Spec == Init /\ [][Next]_vars

\* Console::init may run again at any time
SpecReinit == Init /\ [][Arbitration \/ ReInit]_vars

\* checkouts and releases only, where every guard is eventually dropped and a
\* caller keeps retrying: a checkout that can succeed is eventually made
Retry == \E c \in Consoles :
    /\ slot[c] \in Tokens
    /\ (CheckoutBlitter(c) \/ CheckoutFramebuffers(c) \/ CheckoutSpriteMem(c))

SpecLive ==
    /\ Init
    /\ [][Arbitration]_vars
    /\ WF_vars(\E i \in 1..Len(guards) : Release(i))
    /\ WF_vars(Retry)

\* the vertical-blank interrupt keeps occurring, and a caller whose wait()
\* has been woken runs on
SpecVblank ==
    /\ Init
    /\ [][Next]_vars
    /\ WF_vars(Nmi)
    /\ WF_vars(WaitBlitReturn)

\* the calls into the audio interface
driver ==
    <<mir, scr, rb, bcr, slot, guards, result, writes, last, twin, vblank,
      blit, pc, wake>>

SetVolume(level) ==
    /\ voice' = Voice_set_volume(voice, level)
    /\ acall' = [name |-> "set_volume", arg |-> level, ret |-> 0,
                 panics |-> FALSE, after |-> acall.name]
    /\ UNCHANGED <<driver, seq, demo>>

\* arg: the argument of the call before
GetVolume ==
    /\ acall' = [name |-> "get_volume", arg |-> acall.arg,
                 ret |-> Voice_get_volume(voice), panics |-> FALSE,
                 after |-> acall.name]
    /\ UNCHANGED <<voice, driver, seq, demo>>

Mute ==
    /\ voice' = Voice_mute(voice)
    /\ acall' = [name |-> "mute", arg |-> 0, ret |-> 0, panics |-> FALSE,
                 after |-> acall.name]
    /\ UNCHANGED <<driver, seq, demo>>

VoiceSeven(index) ==
    LET r == voice_7ch(index) IN
    /\ acall' = [name |-> "voice_7ch", arg |-> index, ret |-> r.addr,
                 panics |-> r.panics, after |-> acall.name]
    /\ UNCHANGED <<voice, driver, seq, demo>>

VoiceEight(index) ==
    LET r == voice_8v(index) IN
    /\ acall' = [name |-> "voice_8v", arg |-> index, ret |-> r.addr,
                 panics |-> r.panics, after |-> acall.name]
    /\ UNCHANGED <<voice, driver, seq, demo>>

NextAudio ==
    \/ \E level \in U8 : SetVolume(level)
    \/ GetVolume
    \/ Mute
    \/ \E index \in Indices : VoiceSeven(index)
    \/ \E index \in Indices : VoiceEight(index)

SpecAudio == InitAudio /\ [][NextAudio]_vars

\* the main loop calls tick once per frame until a tick panics
Tick ==
    LET r == DemoSequencer_tick(seq, demo.MAX_VOLUME, demo.overflow_checks) IN
    /\ ~demo.panicked
    /\ seq' = r.q
    /\ demo' = [demo EXCEPT !.writes = r.w, !.panicked = r.panicked,
                            !.complete = @ \/ seq.step > 26]
    /\ UNCHANGED <<driver, voice, acall>>

SpecDemo == InitDemo /\ [][Tick]_vars

\* caller code also uses the public video_dma field
SpecField == Init /\ [][Arbitration \/ \E c \in Consoles : FieldTake(c)]_vars

\* two runs of the same operations over hardware that reads back differently
SpecTwoRuns == InitTwoRuns /\ [][Next \/ Alias \/ AliasTwin]_vars

-----------------------------------------------------------------------------
(* Vocabulary of the properties *)

Checkouts == {"blitter", "framebuffers", "sprite_mem"}

\* the mode a checkout asks for
Requested(name) ==
    CASE name = "blitter" -> "DmaBlit"
      [] name = "framebuffers" -> "DmaFb"
      [] name = "sprite_mem" -> "DmaSprites"

\* the access mode a video-flags byte encodes (scr.rs, lines 90-93)
ModeOf(v) ==
    IF contains(v, DMA_ENABLE) THEN "DmaBlit"
    ELSE IF contains(v, DMA_CPU_TO_VRAM) THEN "DmaFb"
    ELSE "DmaSprites"

\* the mode bits the transition table gives for a checkout of mode m
TableBits(v, m) ==
    CASE m = "DmaBlit" -> contains(v, DMA_ENABLE)
      [] m = "DmaFb" -> ~contains(v, DMA_ENABLE) /\ contains(v, DMA_CPU_TO_VRAM)
      [] m = "DmaSprites" ->
             ~contains(v, DMA_ENABLE) /\ ~contains(v, DMA_CPU_TO_VRAM)

\* the step is one of the driver: an interrupt, the end of a block transfer
\* and the entry into wait() leave all of these as they are
Acted ==
    <<mir, scr, bcr, slot, guards, result, writes, last>>' #
        <<mir, scr, bcr, slot, guards, result, writes, last>>

GuardsOf(c) == {i \in 1..Len(guards) : guards[i].console = c}

-----------------------------------------------------------------------------
(* C1: over every sequence of checkouts and releases at most one guard is  *)
(* live; a checkout made while a guard is outstanding returns None and     *)
(* creates no second guard.                                                *)
C1_AtMostOneGuard ==
    [][ /\ Len(guards') <= 1
        /\ (Acted /\ last'.name \in Checkouts /\ Len(guards) >= 1)
               => (result' = "None" /\ guards' = guards) ]_vars

C1_Witness ==
    last.name \in Checkouts /\ result = "None" /\ Len(guards) = 1

(* C2: a successful checkout leaves the video-flags byte, in the shadow    *)
(* image and in hardware, with the mode bits of the transition table, and  *)
(* a checkout of the mode that was idle writes no register.                *)
C2_TransitionTable ==
    (last.name \in Checkouts /\ result = "Some") =>
        /\ TableBits(mir.video_reg, Requested(last.name))
        /\ TableBits(scr.video_reg, Requested(last.name))
        /\ (last.from = Requested(last.name) => writes = <<>>)
        /\ (last.from # Requested(last.name) => Len(writes) = 1)

C2_Witness ==
    /\ last.name = "framebuffers" /\ last.from = "DmaBlit" /\ result = "Some"
    /\ writes = <<<<"video_reg", mir.video_reg>>>>

(* C3: a checkout that finds the slot empty returns None in that one step  *)
(* and changes nothing: slot, guards, shadow image and hardware registers  *)
(* are as before and no register is written.                               *)
C3_FailedCheckoutChangesNothing ==
    [][ (Acted /\ last'.name \in Checkouts /\ slot[last'.console] = "None") =>
            /\ result' = "None"
            /\ writes' = <<>>
            /\ <<slot, guards, mir, scr, bcr>>' = <<slot, guards, mir, scr, bcr>>
      ]_vars

C3_Witness ==
    /\ last.name = "blitter" /\ last.from = "None" /\ result = "None"
    /\ HasGuard("DmaFb")

(* C4: releasing a guard of mode M leaves the slot holding a token of mode *)
(* M, whatever was idle before and whatever the guard was used for, and    *)
(* the checkout that follows the release succeeds.                         *)
C4_ReleaseIsSticky ==
    [][ /\ (Acted /\ last'.name = "drop") =>
               (slot'[last'.console] = last'.arg /\ guards' # guards)
        /\ (last.name = "drop" /\ last'.name \in Checkouts
                /\ last'.console = last.console) =>
               (result' = "Some" /\ last'.from = last.arg) ]_vars

C4_Witness ==
    last.name = "drop" /\ last.arg = "DmaFb" /\ slot[1] = "DmaFb"
        /\ contains(mir.banking, FRAMEBUFFER_SELECT)

(* C5: exactly one token is accounted for: the slot of a Console is empty  *)
(* exactly when one guard of it is live and full exactly when none is.     *)
C5_OneToken ==
    \A c \in Consoles :
        slot[c] # "Absent" =>
            /\ slot[c] = "None" <=> Cardinality(GuardsOf(c)) = 1
            /\ slot[c] \in Tokens <=> Cardinality(GuardsOf(c)) = 0

C5_Witness ==
    slot[1] = "None" /\ guards = <<Guard(1, "DmaBlit")>> /\ bcr.start = 1

(* C6: after Console::init a checkout of the blitter succeeds and sets    *)
(* video-flags bit 0; while the blitter guard is live a checkout of the    *)
(* framebuffers returns None; once the blitter guard is released a         *)
(* checkout of the framebuffers succeeds, clears bit 0 and sets bit 5.     *)
C6_Scenario ==
    [][ /\ (last.name = "init" /\ last'.name = "blitter") =>
               /\ result' = "Some"
               /\ contains(scr'.video_reg, DMA_ENABLE)
               /\ guards' = <<Guard(last'.console, "DmaBlit")>>
        /\ (HasGuard("DmaBlit") /\ last'.name = "framebuffers") =>
               (result' = "None" /\ guards' = guards)
        /\ (last.name = "drop" /\ last.arg = "DmaBlit"
                /\ last'.name = "framebuffers") =>
               /\ result' = "Some"
               /\ ~contains(scr'.video_reg, DMA_ENABLE)
               /\ contains(scr'.video_reg, DMA_CPU_TO_VRAM)
               /\ guards' = <<Guard(last'.console, "DmaFb")>> ]_vars

C6_Witness ==
    /\ last.name = "framebuffers" /\ last.from = "DmaBlit" /\ result = "Some"
    /\ ~contains(scr.video_reg, DMA_ENABLE)
    /\ contains(scr.video_reg, DMA_CPU_TO_VRAM)
    /\ bcr = BcrReset

(* C7: when Console::init has run at startup, shadow and hardware          *)
(* video-flags have DMA_ENABLE = 0, DMA_CPU_TO_VRAM = 0, DMA_NMI = 1,      *)
(* DMA_IRQ = 1, DMA_OPAQUE = 1, DMA_GCARRY = 1, banking has                *)
(* FRAMEBUFFER_SELECT = 0 and the slot holds DmaSprites; before that no    *)
(* checkout has happened and no guard exists.                              *)
SafeDefault(v) ==
    /\ ~contains(v, DMA_ENABLE)
    /\ ~contains(v, DMA_CPU_TO_VRAM)
    /\ contains(v, DMA_NMI)
    /\ contains(v, DMA_IRQ)
    /\ contains(v, DMA_OPAQUE)
    /\ contains(v, DMA_GCARRY)

C7_InitDefault ==
    /\ last.name = "init" =>
           /\ SafeDefault(mir.video_reg)
           /\ SafeDefault(scr.video_reg)
           /\ ~contains(mir.banking, FRAMEBUFFER_SELECT)
           /\ ~contains(scr.banking, FRAMEBUFFER_SELECT)
           /\ slot[last.console] = "DmaSprites"
    /\ ~Initialised => (last = NoOp /\ guards = <<>> /\ result = "NoCall")

C7_Witness ==
    last.name = "init" /\ slot[1] = "DmaSprites" /\ scr.video_reg = 214

(* C8: one arbiter for the life of the process: no Console::init while a   *)
(* guard is outstanding, never two live guards, and never an idle arbiter  *)
(* whose token disagrees with the mode bits of the shadow image.           *)
C8_SingleArbiter ==
    /\ (last.name = "init" => guards = <<>>)
    /\ Len(guards) <= 1
    /\ \A c \in Consoles :
           slot[c] \in Tokens => slot[c] = ModeOf(mir.video_reg)

(* C9: after initialization and after every operation the hardware banking *)
(* and video-flags bytes equal the shadow bytes, and an operation that     *)
(* changes a shadow byte pushes that byte, as changed, to hardware.        *)
C9_ShadowInSync ==
    [][ /\ Initialised' =>
               /\ scr'.banking = mir'.banking
               /\ scr'.video_reg = mir'.video_reg
        /\ mir'.video_reg # mir.video_reg =>
               (writes' # <<>> /\ Written(writes', "video_reg") = {mir'.video_reg})
        /\ mir'.banking # mir.banking =>
               (writes' # <<>> /\ Written(writes', "banking") = {mir'.banking})
      ]_vars

C9_Witness ==
    /\ last.name = "set_fill_mode" /\ last.arg = "Color"
    /\ contains(mir.video_reg, DMA_COLORFILL)
    /\ scr.video_reg = mir.video_reg
    /\ contains(scr.banking, FRAMEBUFFER_SELECT)

(* C10: the driver reads no hardware register: two runs of the same        *)
(* operations over hardware whose contents and read-back differ have the   *)
(* same shadow image, slot, guards, checkout results and hardware writes.  *)
C10_NoReadBack ==
    /\ twin.mir = mir
    /\ twin.slot = slot
    /\ twin.guards = guards
    /\ twin.result = result
    /\ twin.writes = writes

C10_Witness ==
    /\ twin.rb # rb
    /\ last.name = "flip"
    /\ twin.writes = writes /\ Len(writes) = 2

(* C11: a checkout that changes the mode makes exactly one hardware write, *)
(* of the video-flags byte with the final value of both mode bits; no      *)
(* byte written during a checkout encodes a mode other than the old one    *)
(* or the new one.                                                         *)
C11_OneModeWrite ==
    [][ (Acted /\ last'.name \in Checkouts /\ result' = "Some") =>
            /\ last'.from # Requested(last'.name) =>
                   writes' = <<<<"video_reg", mir'.video_reg>>>>
            /\ \A i \in 1..Len(writes') :
                   /\ writes'[i][1] = "video_reg"
                   /\ ModeOf(writes'[i][2]) \in
                          {ModeOf(scr.video_reg), Requested(last'.name)}
      ]_vars

C11_Witness ==
    /\ last.name = "sprite_mem" /\ last.from = "DmaBlit" /\ result = "Some"
    /\ writes = <<<<"video_reg", scr.video_reg>>>>
    /\ ModeOf(scr.video_reg) = "DmaSprites"

(* C12: a blitter command register is written only while a Blitter guard   *)
(* is live and hardware has DMA_ENABLE = 1; a guard is live, and hands out *)
(* the video-memory window, only while the hardware video-flags byte       *)
(* encodes the guard's mode.                                               *)
BcrRegs ==
    {"fb_x", "fb_y", "vram_x", "vram_y", "width", "height", "start", "color"}

C12_AccessOnlyInMode ==
    [][ /\ (Acted /\ \E reg \in BcrRegs : Written(writes', reg) # {}) =>
               /\ HasGuard("DmaBlit")
               /\ contains(scr.video_reg, DMA_ENABLE)
               /\ contains(scr'.video_reg, DMA_ENABLE)
        /\ (Acted /\ last'.name = "bytes") =>
               /\ HasGuard(last'.arg)
               /\ ModeOf(scr.video_reg) = last'.arg
               /\ ModeOf(scr'.video_reg) = last'.arg
        /\ \A i \in 1..Len(guards') :
               ModeOf(scr'.video_reg) = guards'[i].mode ]_vars

C12_Witness ==
    /\ last.name = "draw_sprite" /\ HasGuard("DmaBlit")
    /\ contains(scr.video_reg, DMA_ENABLE)
    /\ Written(writes, "start") = {1}

(* C13: one flip toggles FRAMEBUFFER_SELECT in the banking byte and        *)
(* DMA_PAGE_OUT in the video-flags byte, in the shadow image and in        *)
(* hardware, and changes no other bit, register or the slot.               *)
C13_FlipFrame ==
    [][ (Acted /\ last'.name = "flip") =>
            /\ BitXor(mir'.banking, mir.banking) = FRAMEBUFFER_SELECT
            /\ BitXor(scr'.banking, scr.banking) = FRAMEBUFFER_SELECT
            /\ BitXor(mir'.video_reg, mir.video_reg) = DMA_PAGE_OUT
            /\ BitXor(scr'.video_reg, scr.video_reg) = DMA_PAGE_OUT
            /\ \A reg \in {"audio_reset", "audio_nmi", "audio_reg"} :
                   mir'[reg] = mir[reg] /\ scr'[reg] = scr[reg]
            /\ <<bcr, slot, guards>>' = <<bcr, slot, guards>> ]_vars

C13_Witness ==
    /\ last.name = "flip"
    /\ contains(scr.banking, FRAMEBUFFER_SELECT)
    /\ ~contains(scr.video_reg, DMA_PAGE_OUT)
    /\ contains(scr.video_reg, DMA_COLORFILL)

(* C14: two consecutive flips on the same Framebuffers guard return the    *)
(* banking and video-flags bytes, shadow and hardware, to the values the   *)
(* first flip found.                                                       *)
C14_FlipTwice ==
    [][ (Acted /\ last.name = "flip" /\ last'.name = "flip") =>
            /\ mir'.banking = last.arg[1]
            /\ mir'.video_reg = last.arg[2]
            /\ scr'.banking = last.arg[3]
            /\ scr'.video_reg = last.arg[4] ]_vars

C14_Witness ==
    /\ last.name = "flip"
    /\ contains(last.arg[1], FRAMEBUFFER_SELECT)
    /\ ~contains(mir.banking, FRAMEBUFFER_SELECT)
    /\ contains(mir.video_reg, DMA_PAGE_OUT)

(* C15: after draw_square(x, y, w, h, c) the destination-x, destination-y, *)
(* width, height and colour registers hold x, y, w, h, c and the start     *)
(* register holds 1; the call writes neither source register; COLORFILL is *)
(* 1 in the shadow image and in hardware; an idle blitter has become busy. *)
C15_DrawSquare ==
    [][ (Acted /\ last'.name = "draw_square") =>
            /\ bcr'.fb_x = last'.arg[1] /\ bcr'.fb_y = last'.arg[2]
            /\ bcr'.width = last'.arg[3] /\ bcr'.height = last'.arg[4]
            /\ bcr'.color = last'.arg[5] /\ bcr'.start = 1
            /\ Written(writes', "vram_x") = {}
            /\ Written(writes', "vram_y") = {}
            /\ bcr'.vram_x = bcr.vram_x /\ bcr'.vram_y = bcr.vram_y
            /\ contains(mir'.video_reg, DMA_COLORFILL)
            /\ contains(scr'.video_reg, DMA_COLORFILL)
            /\ last'.from = blit /\ blit' = "Busy" ]_vars

C15_Witness ==
    /\ last.name = "draw_square" /\ last.from = "Idle" /\ blit = "Busy"
    /\ bcr.fb_x # bcr.fb_y /\ bcr.color = last.arg[5] /\ bcr.start = 1
    /\ bcr.vram_x # Unwritten

(* C16: after draw_sprite(sx, sy, x, y, w, h) the source-x, source-y,      *)
(* destination-x, destination-y, width and height registers hold sx, sy,   *)
(* x, y, w, h and the start register holds 1; the call does not write the  *)
(* colour register; COLORFILL is 0 in the shadow image and in hardware; an *)
(* idle blitter has become busy.                                           *)
C16_DrawSprite ==
    [][ (Acted /\ last'.name = "draw_sprite") =>
            /\ bcr'.vram_x = last'.arg[1] /\ bcr'.vram_y = last'.arg[2]
            /\ bcr'.fb_x = last'.arg[3] /\ bcr'.fb_y = last'.arg[4]
            /\ bcr'.width = last'.arg[5] /\ bcr'.height = last'.arg[6]
            /\ bcr'.start = 1
            /\ Written(writes', "color") = {}
            /\ bcr'.color = bcr.color
            /\ ~contains(mir'.video_reg, DMA_COLORFILL)
            /\ ~contains(scr'.video_reg, DMA_COLORFILL)
            /\ last'.from = blit /\ blit' = "Busy" ]_vars

C16_Witness ==
    /\ last.name = "draw_sprite" /\ last.from = "Idle" /\ blit = "Busy"
    /\ bcr.vram_x = last.arg[1] /\ bcr.start = 1
    /\ bcr.color # Unwritten
    /\ ~contains(scr.video_reg, DMA_COLORFILL)

(* C17: wait_blit returns only once the blit in progress has completed;    *)
(* when it returns the start register holds 0 and the blitter is idle.     *)
C17_WaitBlitReturnsIdle ==
    last.name = "wait_blit" => (last.from = "Idle" /\ bcr.start = 0)

(* C18: contention is always recoverable: if every guard is eventually     *)
(* dropped and the caller keeps retrying, a refused checkout is eventually *)
(* followed by a checkout that obtains a guard.                            *)
C18_ContentionRecoverable ==
    (result = "None") ~> (result = "Some")

C18_Witness ==
    /\ result = "None" /\ last.name = "framebuffers"
    /\ HasGuard("DmaSprites") /\ slot[last.console] = "None"

(* C19: the vertical-blank handler only sets the VBLANK flag: a step of    *)
(* the handler leaves the shadow image, the hardware registers, the slot   *)
(* and the guards alone, and a run interleaved with handler invocations    *)
(* has the same hardware writes, shadow image, command registers and slot  *)
(* as the run of the same operations without them.                         *)
NmiStep == vblank' # vblank \/ (wake' = "nmi" /\ wake # "nmi")

C19_NmiTransparent ==
    [][ /\ NmiStep =>
               /\ vblank'
               /\ <<mir, scr, rb, bcr, slot, guards, result, writes, last>>' =
                      <<mir, scr, rb, bcr, slot, guards, result, writes, last>>
        /\ twin'.on =>
               /\ twin'.writes = writes' /\ twin'.mir = mir'
               /\ twin'.bcr = bcr' /\ twin'.slot = slot'
               /\ twin'.guards = guards' ]_vars

C19_Witness ==
    /\ twin.on /\ vblank /\ last.name = "flip" /\ last.arg[2] # mir.video_reg
    /\ twin.writes = writes /\ Len(writes) = 2 /\ twin.mir = mir

(* C20: a checkout changes at most DMA_ENABLE (bit 0) and DMA_CPU_TO_VRAM  *)
(* (bit 5) of the video-flags byte: the other six bits, the banking byte,  *)
(* the audio registers and the blitter command registers are the same      *)
(* after it as before, in the shadow image and in hardware.                *)
ModeBits == BitOr(DMA_ENABLE, DMA_CPU_TO_VRAM)

C20_CheckoutFrame ==
    [][ (Acted /\ last'.name \in Checkouts) =>
            /\ remove(mir'.video_reg, ModeBits) = remove(mir.video_reg, ModeBits)
            /\ remove(scr'.video_reg, ModeBits) = remove(scr.video_reg, ModeBits)
            /\ \A reg \in {"audio_reset", "audio_nmi", "audio_reg", "banking"} :
                   mir'[reg] = mir[reg] /\ scr'[reg] = scr[reg]
            /\ bcr' = bcr ]_vars

C20_Witness ==
    /\ last.name = "blitter" /\ last.from = "DmaFb" /\ result = "Some"
    /\ contains(scr.banking, FRAMEBUFFER_SELECT)
    /\ ~contains(scr.video_reg, DMA_PAGE_OUT)
    /\ bcr.start = 0

(* C21: the slot is changed only by a successful checkout (to empty) and   *)
(* by a guard release (to the token of the guard's mode), after its        *)
(* construction by Console::init; no other step of caller code empties,    *)
(* fills or replaces it.                                                   *)
C21_SlotFrame ==
    [][ slot' # slot =>
            \/ /\ last'.name \in Checkouts /\ result' = "Some"
               /\ slot' = [slot EXCEPT ![last'.console] = "None"]
            \/ /\ last'.name = "drop"
               /\ slot' = [slot EXCEPT ![last'.console] = last'.arg]
            \/ /\ last'.name = "init"
               /\ slot' = [slot EXCEPT ![last'.console] = "DmaSprites"]
      ]_vars

(* C22: in the 7-channel interface, for every 8-bit level, set_volume(level) *)
(* followed by get_volume() returns min(level, 16): levels 0 to 16 come     *)
(* back unchanged, every level above 16 comes back as 16.                   *)
C22_VolumeRoundTrip ==
    (acall.name = "get_volume" /\ acall.after = "set_volume") =>
        acall.ret = (IF acall.arg <= 16 THEN acall.arg ELSE 16)

C22_Witness ==
    /\ acall.name = "get_volume" /\ acall.after = "set_volume"
    /\ acall.arg = 200 /\ acall.ret = 16 /\ voice.shift = 0

(* C23: voice(index) returns the block at VOICE_BASE + index * VOICE_SIZE   *)
(* for every index 0 to 7 and panics if and only if index >= 8, in the      *)
(* 8-voice and in the 7-channel interface.                                  *)
C23_VoiceIndex ==
    /\ acall.name = "voice_7ch" =>
           /\ acall.panics <=> acall.arg >= 8
           /\ ~acall.panics =>
                  acall.ret = VOICE_BASE_7ch + acall.arg * VOICE_SIZE_7ch
    /\ acall.name = "voice_8v" =>
           /\ acall.panics <=> acall.arg >= 8
           /\ ~acall.panics =>
                  acall.ret = VOICE_BASE_8v + acall.arg * VOICE_SIZE_8v

(* C25: between operations the mode of the token in the slot, or of the   *)
(* live guard, is the mode the shadow video-flags byte encodes: Blitter    *)
(* iff DMA_ENABLE = 1, Framebuffer iff DMA_ENABLE = 0 and DMA_CPU_TO_VRAM  *)
(* = 1, SpriteMem iff both are 0; and DMA_ENABLE is already 0 when a       *)
(* transition between Framebuffer and SpriteMem runs.                      *)
Held ==
    ({slot[c] : c \in Consoles} \cap Tokens) \cup
        {guards[i].mode : i \in 1..Len(guards)}

Encodes(v, m) ==
    /\ m = "DmaBlit" <=> contains(v, DMA_ENABLE)
    /\ m = "DmaFb" <=>
           (~contains(v, DMA_ENABLE) /\ contains(v, DMA_CPU_TO_VRAM))
    /\ m = "DmaSprites" <=>
           (~contains(v, DMA_ENABLE) /\ ~contains(v, DMA_CPU_TO_VRAM))

C25_ModeMatchesShadow ==
    [][ /\ \A m \in Held' : Encodes(mir'.video_reg, m)
        /\ ( /\ Acted /\ last'.name \in {"framebuffers", "sprite_mem"}
             /\ last'.from \in {"DmaFb", "DmaSprites"} ) =>
               /\ ~contains(mir.video_reg, DMA_ENABLE)
               /\ ~contains(scr.video_reg, DMA_ENABLE)
               /\ ~contains(mir'.video_reg, DMA_ENABLE) ]_vars

C25_Witness ==
    /\ last.name = "sprite_mem" /\ last.from = "DmaFb" /\ result = "Some"
    /\ Held = {"DmaSprites"}
    /\ ~contains(mir.video_reg, DMA_ENABLE)
    /\ ~contains(mir.video_reg, DMA_CPU_TO_VRAM)

(* C26: in draw_square and in draw_sprite the first hardware write is the  *)
(* video-flags write that sets the fill mode, the coordinate, size and     *)
(* colour writes follow, and the write of 1 to start is the last write of  *)
(* the call.                                                               *)
C26_DrawWriteOrder ==
    [][ (Acted /\ last'.name \in {"draw_square", "draw_sprite"}) =>
            LET w == writes' IN
            /\ Len(w) >= 3
            /\ w[1][1] = "video_reg"
            /\ contains(w[1][2], DMA_COLORFILL) <=> last'.name = "draw_square"
            /\ w[Len(w)] = <<"start", 1>>
            /\ \A i \in 2..(Len(w) - 1) : w[i][1] \in BcrRegs \ {"start"}
      ]_vars

C26_Witness ==
    /\ last.name = "draw_sprite" /\ Len(writes) = 8
    /\ writes[1][1] = "video_reg" /\ writes[8] = <<"start", 1>>
    /\ writes[2] = <<"vram_x", last.arg[1]>>

(* C27: wait_blit has no timeout: while vertical-blank interrupts keep     *)
(* occurring every call of wait_blit eventually returns, with start        *)
(* written to 0, whether the blitter was Busy or Idle; and it never        *)
(* returns unless an asynchronous event has occurred since it was called.  *)
C27_WaitBlitReturns ==
    /\ (pc = "waiting") ~>
           (pc = "ready" /\ last.name = "wait_blit" /\ bcr.start = 0)
    /\ [][ (pc = "waiting" /\ pc' = "ready") =>
               (wake # "none" /\ writes' = <<<<"start", 0>>>>) ]_vars

C27_Witness ==
    /\ pc = "ready" /\ last.name = "wait_blit" /\ last.arg = "nmi"
    /\ last.from = "Idle" /\ bcr.start = 0 /\ vblank

(* C28: releasing a guard writes no hardware register and leaves the       *)
(* shadow image unchanged: hardware stays in the guard's mode while the    *)
(* arbiter is idle.                                                        *)
C28_ReleaseWritesNothing ==
    [][ (Acted /\ last'.name = "drop") =>
            /\ writes' = <<>>
            /\ mir' = mir /\ scr' = scr /\ bcr' = bcr
            /\ ModeOf(scr'.video_reg) = last'.arg
            /\ slot'[last'.console] = last'.arg ]_vars

C28_Witness ==
    /\ last.name = "drop" /\ last.arg = "DmaBlit" /\ guards = <<>>
    /\ writes = <<>> /\ contains(scr.video_reg, DMA_ENABLE)

(* C29: the draws make no Idle/Busy check: a draw issued while the blitter *)
(* is Busy is not rejected, it makes exactly the register writes of a draw *)
(* issued while Idle and overwrites the command registers of the blit in   *)
(* progress.                                                               *)
C29_DrawWhileBusy ==
    [][ (Acted /\ blit = "Busy") =>
            /\ last'.name = "draw_square" =>
                   /\ writes' =
                          << <<"video_reg", insert(mir.video_reg, DMA_COLORFILL)>>,
                             <<"fb_x", last'.arg[1]>>, <<"fb_y", last'.arg[2]>>,
                             <<"width", last'.arg[3]>>, <<"height", last'.arg[4]>>,
                             <<"color", last'.arg[5]>>, <<"start", 1>> >>
                   /\ bcr'.fb_x = last'.arg[1] /\ bcr'.width = last'.arg[3]
                   /\ blit' = "Busy"
            /\ last'.name = "draw_sprite" =>
                   /\ writes' =
                          << <<"video_reg", remove(mir.video_reg, DMA_COLORFILL)>>,
                             <<"vram_x", last'.arg[1]>>, <<"vram_y", last'.arg[2]>>,
                             <<"fb_x", last'.arg[3]>>, <<"fb_y", last'.arg[4]>>,
                             <<"width", last'.arg[5]>>, <<"height", last'.arg[6]>>,
                             <<"start", 1>> >>
                   /\ bcr'.fb_x = last'.arg[3] /\ bcr'.width = last'.arg[5]
                   /\ blit' = "Busy" ]_vars

C29_Witness ==
    /\ last.name = "draw_square" /\ last.from = "Busy" /\ blit = "Busy"
    /\ Len(writes) = 7 /\ bcr.fb_x = last.arg[1]
    /\ bcr.vram_x # Unwritten /\ bcr.vram_x # last.arg[1]

(* C30: releasing a Blitter guard neither waits for the blit in progress   *)
(* nor clears the start trigger, and the checkout of Framebuffer or        *)
(* SpriteMem that follows succeeds and clears DMA_ENABLE with the blitter  *)
(* still Busy and start still 1.                                           *)
C30_ReleaseWhileBusy ==
    [][ /\ (Acted /\ last'.name = "drop" /\ last'.arg = "DmaBlit") =>
               /\ blit' = blit /\ bcr'.start = bcr.start
               /\ pc' = "ready" /\ wake' = wake
        /\ ( /\ Acted /\ last'.name \in {"framebuffers", "sprite_mem"}
             /\ last'.from = "DmaBlit" ) =>
               /\ result' = "Some"
               /\ ~contains(scr'.video_reg, DMA_ENABLE)
               /\ blit' = blit /\ bcr'.start = bcr.start ]_vars

C30_Witness ==
    /\ last.name = "framebuffers" /\ last.from = "DmaBlit" /\ result = "Some"
    /\ blit = "Busy" /\ bcr.start = 1
    /\ ~contains(scr.video_reg, DMA_ENABLE)

(* C31: after initialization DMA_PAGE_OUT of the video-flags byte and      *)
(* FRAMEBUFFER_SELECT of the banking byte have opposite values, in the     *)
(* shadow image and in hardware, between any two operations.               *)
C31_PagesOpposite ==
    Initialised =>
        /\ contains(mir.video_reg, DMA_PAGE_OUT) #
               contains(mir.banking, FRAMEBUFFER_SELECT)
        /\ contains(scr.video_reg, DMA_PAGE_OUT) #
               contains(scr.banking, FRAMEBUFFER_SELECT)

C31_Witness ==
    /\ last.name = "draw_square" /\ blit = "Busy"
    /\ contains(scr.banking, FRAMEBUFFER_SELECT)
    /\ ~contains(scr.video_reg, DMA_PAGE_OUT)

(* C32: after initialization DMA_NMI, DMA_IRQ, DMA_GCARRY and DMA_OPAQUE   *)
(* are 1 in the shadow image and in hardware; no operation clears them.    *)
C32_InitBitsStay ==
    Initialised =>
        \A b \in {DMA_NMI, DMA_IRQ, DMA_GCARRY, DMA_OPAQUE} :
            contains(mir.video_reg, b) /\ contains(scr.video_reg, b)

C32_Witness ==
    /\ last.name = "set_fill_mode" /\ last.arg = "Sprite"
    /\ HasGuard("DmaFb") /\ ~contains(scr.video_reg, DMA_PAGE_OUT)
    /\ \A b \in {DMA_NMI, DMA_IRQ, DMA_GCARRY, DMA_OPAQUE} :
           contains(scr.video_reg, b)

(* C33: set_fill_mode(mode) makes DMA_COLORFILL 1 for Color and 0 for      *)
(* Sprite, pushes the video-flags byte to hardware and changes nothing     *)
(* else, whether or not a guard is live; the fill mode stays until the     *)
(* next set_fill_mode or draw.                                             *)
C33_SetFillModeFrame ==
    [][ /\ (Acted /\ last'.name = "set_fill_mode") =>
               /\ contains(mir'.video_reg, DMA_COLORFILL) <=> last'.arg = "Color"
               /\ contains(scr'.video_reg, DMA_COLORFILL) <=> last'.arg = "Color"
               /\ writes' = <<<<"video_reg", mir'.video_reg>>>>
               /\ remove(mir'.video_reg, DMA_COLORFILL) =
                      remove(mir.video_reg, DMA_COLORFILL)
               /\ remove(scr'.video_reg, DMA_COLORFILL) =
                      remove(scr.video_reg, DMA_COLORFILL)
               /\ \A reg \in {"audio_reset", "audio_nmi", "audio_reg", "banking"} :
                      mir'[reg] = mir[reg] /\ scr'[reg] = scr[reg]
               /\ <<bcr, slot, guards>>' = <<bcr, slot, guards>>
        /\ (Initialised /\
            last'.name \notin {"set_fill_mode", "draw_square", "draw_sprite"}) =>
               /\ contains(mir'.video_reg, DMA_COLORFILL) <=>
                      contains(mir.video_reg, DMA_COLORFILL)
               /\ contains(scr'.video_reg, DMA_COLORFILL) <=>
                      contains(scr.video_reg, DMA_COLORFILL) ]_vars

C33_Witness ==
    /\ last.name = "set_fill_mode" /\ last.arg = "Color"
    /\ HasGuard("DmaSprites") /\ contains(scr.video_reg, DMA_COLORFILL)
    /\ contains(scr.banking, FRAMEBUFFER_SELECT)

(* C34: flip updates both shadow bytes before either hardware write, then  *)
(* writes the banking byte and then the video-flags byte, each once;       *)
(* between the two writes hardware holds the toggled FRAMEBUFFER_SELECT    *)
(* with the not yet toggled DMA_PAGE_OUT.                                  *)
C34_FlipOrder ==
    [][ (Acted /\ last'.name = "flip") =>
            LET st == FramebuffersGuard_flip_steps(Begin(Cur)) IN
            /\ Len(st) = 4
            /\ st[2].mir = mir' /\ st[2].writes = <<>> /\ st[2].scr = scr
            /\ st[3].writes = <<<<"banking", mir'.banking>>>>
            /\ contains(st[3].scr.banking, FRAMEBUFFER_SELECT) #
                   contains(scr.banking, FRAMEBUFFER_SELECT)
            /\ st[3].scr.video_reg = scr.video_reg
            /\ contains(st[3].scr.video_reg, DMA_PAGE_OUT) #
                   contains(scr'.video_reg, DMA_PAGE_OUT)
            /\ writes' = << <<"banking", mir'.banking>>,
                            <<"video_reg", mir'.video_reg>> >>
            /\ st[4].scr = scr' /\ st[4].mir = mir' ]_vars

C34_Witness ==
    /\ last.name = "flip" /\ Len(writes) = 2
    /\ writes[1] = <<"banking", FRAMEBUFFER_SELECT>>
    /\ writes[2][1] = "video_reg" /\ ~contains(writes[2][2], DMA_PAGE_OUT)
    /\ contains(last.arg[4], DMA_PAGE_OUT)

(* C35: in DemoSequencer frame is within 0..59 after every tick, step     *)
(* advances by one every 60 ticks, and once the sequence is complete       *)
(* (step greater than 26) every further tick, however many follow, writes  *)
(* no voice register.                                                      *)
C35_DemoSequencer ==
    [][ seq' # seq =>
            /\ ~demo'.panicked
            /\ seq'.frame \in 0..59
            /\ seq.frame = 59 => seq'.step = seq.step + 1
            /\ seq.frame # 59 => seq'.step = seq.step
            /\ demo'.complete => demo'.writes = <<>> ]_vars

=============================================================================
